---- MODULE Spec2Model ----
(***************************************************************************)
(* Model of the EfficientViT-SAM chat agent:                               *)
(*   evitsam.py    parse_prompt_for_parameters, process_image_with_sam,    *)
(*                 get_image                                               *)
(*   chat_proto.py handle_message                                          *)
(*                                                                         *)
(* Numbers.  The four segmentation parameters are Python floats/ints.      *)
(* Every value is carried in hundredths (0.8 is 80, 64 is 6400, 64.7 is    *)
(* 6470); the validated points_per_side, which is int()-truncated, is      *)
(* carried as the plain integer.                                           *)
(*                                                                         *)
(* Prompts.  A prompt is a sequence of words; the regular expressions of   *)
(* parse_prompt_for_parameters are matched word by word, leftmost match    *)
(* first, as re.search does.                                               *)
(***************************************************************************)
EXTENDS Integers, Sequences, FiniteSets, TLC

VARIABLES
    \* ---- parameter pipeline (evitsam.py:17-106) ----
    prompt,         \* the prompt handed to process_image_with_sam
    sam_params,     \* the explicit **sam_params overrides
    ppc,            \* position in the pipeline
    param_updates,  \* result of parse_prompt_for_parameters
    params,         \* the params dict of process_image_with_sam before validation
    call_params,    \* the params dict after the "Validate parameters" block
    \* ---- handle_message tasks (chat_proto.py:68-161) ----
    pc,             \* position of each task in handle_message / get_image
    inbox,          \* the ChatMessage each task handles: msg_id and content
    sender,         \* the sender argument of each task
    session,        \* ctx.session of each task
    idx,            \* position of the for loop over msg.content
    content_items,  \* the content_items list
    has_image,      \* the has_image flag
    log,            \* per task: the messages sent and the external calls made, in order
    ret,            \* what get_image returned: (segmented_image, analysis)
    sam_call,       \* the params process_image_with_sam resolved for client.predict
    tmp_file,       \* whether the temporary input file of the task exists on disk
    result,         \* the local variable result: "unbound" or "path"
    out_file,       \* the output file the remote call left on disk
    pending,        \* the exception in flight inside process_image_with_sam
    sam_ret,        \* the value a return statement of the inner try block holds
    assets,         \* number of assets each task created in external storage
    asset_id,       \* the asset id create_asset returned
    storage,        \* ctx.storage: session -> last sender noted
    lastStarted,    \* per session, the task whose handler started last (history)
    running         \* the task that holds the event loop, 0 when all are suspended

pvars == <<prompt, sam_params, ppc, param_updates, params, call_params>>
msgvars == <<inbox, sender, session>>
loopvars == <<idx, content_items, has_image>>
samvars == <<sam_call, tmp_file, result, out_file, pending, sam_ret>>
storevars == <<assets, asset_id>>
notevars == <<storage, lastStarted>>
hvars == <<pc, msgvars, loopvars, log, ret, samvars, storevars, notevars, running>>
vars == <<pvars, hvars>>

----------------------------------------------------------------------------
\* Bounds of the model

\* prompts are concatenations of at most MaxChunks phrases
MaxChunks == 3
\* prompts of the override pipeline are concatenations of at most MaxOvChunks phrases
MaxOvChunks == 1
\* an inbound message has at most MaxParts content parts
MaxParts == 3
\* number of handle_message tasks the runtime may interleave
NumTasks == 2

----------------------------------------------------------------------------
\* Small helpers

MinOf(a, b) == IF a <= b THEN a ELSE b
MaxOf(a, b) == IF a >= b THEN a ELSE b
SetMin(S) == CHOOSE x \in S : \A y \in S : x <= y

EmptyDict == [k \in {} |-> 0]

\* dict.update: the keys of u overwrite those of d
DictUpdate(d, u) ==
    [k \in (DOMAIN d) \cup (DOMAIN u) |-> IF k \in DOMAIN u THEN u[k] ELSE d[k]]

----------------------------------------------------------------------------
\* evitsam.py: DEFAULT_PARAMS (hundredths)

DefaultPoints == 6400
DefaultIou == 80
DefaultStability == 85
DefaultNms == 70

ParamKeys ==
    {"points_per_side", "iou_threshold", "stability_threshold", "box_nms_threshold"}

DEFAULT_PARAMS ==
    [points_per_side |-> DefaultPoints,
     iou_threshold |-> DefaultIou,
     stability_threshold |-> DefaultStability,
     box_nms_threshold |-> DefaultNms]

----------------------------------------------------------------------------
\* parse_prompt_for_parameters

\* the words [\d.]+ matches in full
NumWords == {"100", "32", "300", "0.9", "0.05", "64.7", "1.2.3"}

\* float(match.group(1)): the value in hundredths, or a ValueError
ParseFloat(w) ==
    CASE w = "100" -> [ok |-> TRUE, v |-> 10000]
      [] w = "32" -> [ok |-> TRUE, v |-> 3200]
      [] w = "300" -> [ok |-> TRUE, v |-> 30000]
      [] w = "0.9" -> [ok |-> TRUE, v |-> 90]
      [] w = "0.05" -> [ok |-> TRUE, v |-> 5]
      [] w = "64.7" -> [ok |-> TRUE, v |-> 6470]
      [] OTHER -> [ok |-> FALSE, v |-> 0]

\* prompt.lower(), word by word
LowerWord(w) ==
    CASE w = "Faster" -> "faster"
      [] w = "Higher" -> "higher"
      [] w = "POINTS" -> "points"
      [] OTHER -> w

Lower(ws) == [i \in 1..Len(ws) |-> LowerWord(ws[i])]

\* param_aliases, in dict order
AliasOrder == <<"points", "iou", "stability", "nms", "quality">>

ParamOfAlias(a) ==
    CASE a = "points" -> "points_per_side"
      [] a = "iou" -> "iou_threshold"
      [] a = "stability" -> "stability_threshold"
      [] a = "nms" -> "box_nms_threshold"
      [] a = "quality" -> "iou_threshold"

\* the four patterns of an alias, each a sequence of word sets with the
\* position of the captured group
Patterns(a) ==
    << [pat |-> <<{a}, {"=", ":"}, NumWords>>, grp |-> 3],
       [pat |-> <<{"set"}, {a}, {"to"}, NumWords>>, grp |-> 4],
       [pat |-> <<{"use"}, NumWords, {"for"}, {a}>>, grp |-> 2],
       [pat |-> <<{a}, NumWords>>, grp |-> 2] >>

MatchesAt(pat, ws, i) ==
    /\ i + Len(pat) - 1 <= Len(ws)
    /\ \A k \in 1..Len(pat) : ws[i + k - 1] \in pat[k]

\* re.search: the start of the leftmost match, 0 when there is none
Search(pat, ws) ==
    LET S == {i \in 1..Len(ws) : MatchesAt(pat, ws, i)}
    IN  IF S = {} THEN 0 ELSE SetMin(S)

\* match.group(1) of pattern p, "" when the pattern does not match
Group1(p, ws) ==
    LET i == Search(p.pat, ws)
    IN  IF i = 0 THEN "" ELSE ws[i + p.grp - 1]

\* the inner loop over the patterns of one alias: the first pattern whose
\* leftmost match parses as a float wins; a ValueError moves on to the
\* next pattern.  0 when no pattern yields a value.
FirstGoodPattern(a, ws) ==
    LET ps == Patterns(a)
        J == {j \in 1..Len(ps) :
                /\ Search(ps[j].pat, ws) # 0
                /\ ParseFloat(Group1(ps[j], ws)).ok}
    IN  IF J = {} THEN 0 ELSE SetMin(J)

AliasValue(a, ws) == ParseFloat(Group1(Patterns(a)[FirstGoodPattern(a, ws)], ws)).v

\* the outer loop over param_aliases, up to alias number n
RECURSIVE AliasUpdates(_, _)
AliasUpdates(ws, n) ==
    IF n = 0 THEN EmptyDict
    ELSE LET a == AliasOrder[n]
             before == AliasUpdates(ws, n - 1)
         IN  IF FirstGoodPattern(a, ws) = 0 THEN before
             ELSE DictUpdate(before, [k \in {ParamOfAlias(a)} |-> AliasValue(a, ws)])

\* "higher quality" in prompt
HasHigherQuality(ws) ==
    \E i \in 1..(Len(ws) - 1) : ws[i] = "higher" /\ ws[i + 1] = "quality"

\* "faster" in prompt
HasFaster(ws) == \E i \in 1..Len(ws) : ws[i] = "faster"

HigherQualityUpdate ==
    [points_per_side |-> MinOf(12800, DEFAULT_PARAMS.points_per_side * 2),
     iou_threshold |-> MinOf(95, DEFAULT_PARAMS.iou_threshold + 5),
     stability_threshold |-> MinOf(95, DEFAULT_PARAMS.stability_threshold + 5)]

\* 64 // 2 is exact, so the floor division is taken on the hundredths
FasterUpdate ==
    [points_per_side |-> MaxOf(1600, DEFAULT_PARAMS.points_per_side \div 2),
     iou_threshold |-> MaxOf(50, DEFAULT_PARAMS.iou_threshold - 10),
     stability_threshold |-> MaxOf(50, DEFAULT_PARAMS.stability_threshold - 10)]

\* mutant of ApplyHigherQuality: the explicit tokens win over the phrase
ApplyHigherQualityUnder(u, ws) ==
    IF HasHigherQuality(ws) THEN DictUpdate(HigherQualityUpdate, u) ELSE u

\* the special cases, applied to the updates collected by the alias loop
ApplyHigherQuality(u, ws) ==
    IF HasHigherQuality(ws) THEN DictUpdate(u, HigherQualityUpdate) ELSE u

ApplyFaster(u, ws) ==
    IF HasFaster(ws) THEN DictUpdate(u, FasterUpdate) ELSE u

\* mutant of parse_prompt_for_parameters: the phrases are applied first and
\* the single-parameter matches after them
parse_prompt_phrases_first(p) ==
    LET ws == Lower(p)
    IN  DictUpdate(ApplyFaster(ApplyHigherQuality(EmptyDict, ws), ws),
                   AliasUpdates(ws, Len(AliasOrder)))

parse_prompt_for_parameters(p) ==
    LET ws == Lower(p)
    IN  ApplyFaster(ApplyHigherQuality(AliasUpdates(ws, Len(AliasOrder)), ws), ws)

----------------------------------------------------------------------------
\* process_image_with_sam, lines 92-106: defaults, prompt, overrides, clamps

\* int(x): truncation toward zero of a value in hundredths
PyInt(v) == IF v >= 0 THEN v \div 100 ELSE -((-v) \div 100)

ClampPoints(v) == MaxOf(1, MinOf(128, PyInt(v)))

\* mutant of ClampThreshold: the lower bound is forgotten
ClampThresholdNoFloor(v) == MinOf(100, v)

ClampThreshold(v) == MaxOf(10, MinOf(100, v))

\* params = DEFAULT_PARAMS.copy(); params.update(param_updates)
WithPrompt(u) == DictUpdate(DEFAULT_PARAMS, u)

\* params.update(sam_params)
WithOverrides(p, ov) == DictUpdate(p, ov)

\* the "Validate parameters" block
Validate(p) ==
    [p EXCEPT !.points_per_side = ClampPoints(@),
              !.iou_threshold = ClampThreshold(@),
              !.stability_threshold = ClampThreshold(@),
              !.box_nms_threshold = ClampThreshold(@)]

\* the parameters process_image_with_sam hands to client.predict
ResolveParams(p, ov) == Validate(WithOverrides(WithPrompt(parse_prompt_for_parameters(p)), ov))

----------------------------------------------------------------------------
\* Inputs of the parameter pipeline

\* phrases a prompt is made of
Chunks ==
    { <<"higher", "quality">>, <<"Faster">>, <<"faster">>,
      <<"points", "=", "100">>, <<"set", "points", "to", "32">>,
      <<"use", "300", "for", "points">>, <<"points", "64.7">>,
      <<"iou", ":", "0.9">>, <<"quality", "0.05">>, <<"0.9">>,
      <<"stability", "=", "1.2.3">>, <<"stability", "300">>,
      <<"nms", "0.05">>, <<"POINTS", ":", "1.2.3">> }

RECURSIVE PromptsUpTo(_)
PromptsUpTo(n) ==
    IF n = 0 THEN {<<>>}
    ELSE LET shorter == PromptsUpTo(n - 1)
         IN  shorter \cup {p \o c : p \in shorter, c \in Chunks}

\* explicit overrides: float(x) of a caller-supplied number, in hundredths
OverridePoints == {-250, 50, 6470, 12850}
OverrideThreshold == {-20, 5, 100, 150}

OverrideValues(k) == IF k = "points_per_side" THEN OverridePoints ELSE OverrideThreshold

Overrides ==
    UNION { {ov \in [K -> OverridePoints \cup OverrideThreshold] :
                \A k \in K : ov[k] \in OverrideValues(k)} : K \in SUBSET ParamKeys }

----------------------------------------------------------------------------
\* The parameter pipeline of process_image_with_sam as a state machine

PipelineIdle ==
    /\ prompt = <<>>
    /\ sam_params = EmptyDict
    /\ ppc = "idle"
    /\ param_updates = EmptyDict
    /\ params = EmptyDict
    /\ call_params = EmptyDict

PipelineStart(ps, ovs) ==
    /\ prompt \in ps
    /\ sam_params \in ovs
    /\ ppc = "start"
    /\ param_updates = EmptyDict
    /\ params = EmptyDict
    /\ call_params = EmptyDict

\* lines 93-97
ParsePrompt ==
    /\ ppc = "start"
    /\ param_updates' = parse_prompt_for_parameters(prompt)
    /\ params' = WithPrompt(param_updates')
    /\ ppc' = "parsed"
    /\ UNCHANGED <<prompt, sam_params, call_params, hvars>>

\* line 100
ApplyOverrides ==
    /\ ppc = "parsed"
    /\ params' = WithOverrides(params, sam_params)
    /\ ppc' = "merged"
    /\ UNCHANGED <<prompt, sam_params, param_updates, call_params, hvars>>

\* lines 103-106
ValidateParams ==
    /\ ppc = "merged"
    /\ call_params' = Validate(params)
    /\ ppc' = "validated"
    /\ UNCHANGED <<prompt, sam_params, param_updates, params, hvars>>

NextPipeline ==
    \/ ParsePrompt
    \/ ApplyOverrides
    \/ ValidateParams

----------------------------------------------------------------------------
\* chat_proto.py: messages and content parts

Tasks == 1..NumTasks

Senders == {"agent_a", "agent_b"}
Sessions == {"s1", "s2"}

\* the texts a TextContent part of an inbound message may carry
InboundTexts == { <<"Faster">>, <<"points", "=", "300">> }

\* one content part of an inbound ChatMessage: StartSessionContent,
\* TextContent, ResourceContent, or any other content type
Parts ==
    { [kind |-> "start", text |-> <<>>],
      [kind |-> "resource", text |-> <<>>],
      [kind |-> "other", text |-> <<>>] }
    \cup { [kind |-> "text", text |-> t] : t \in InboundTexts }

RECURSIVE ContentsUpTo(_)
ContentsUpTo(n) ==
    IF n = 0 THEN {<<>>}
    ELSE LET shorter == ContentsUpTo(n - 1)
         IN  shorter \cup {Append(c, x) : c \in shorter, x \in Parts}

\* the contents of the messages that are handled concurrently
ConcContents ==
    { << [kind |-> "start", text |-> <<>>], [kind |-> "resource", text |-> <<>>] >>,
      << [kind |-> "other", text |-> <<>>], [kind |-> "text", text |-> <<"Faster">>] >> }

\* what external_storage.download does for a ResourceContent part: it
\* raises, returns nothing usable (None, or a dict without "contents"), or
\* returns contents (valid base64 of an image, an empty string, or text
\* that does not decode) with an image or a non-image mime type
DownloadOutcomes == {"raise", "nodata", "image", "image_empty", "image_bad", "nonimage"}

\* the dict line 106 appends for a download that returned contents
ResourceItem(o) ==
    [type |-> "resource",
     mime_image |-> (o # "nonimage"),
     contents |-> (CASE o = "image" -> "good"
                     [] o = "image_empty" -> "empty"
                     [] o = "image_bad" -> "bad"
                     [] OTHER -> "good"),
     text |-> <<>>]

\* the dict line 93 appends for a TextContent part
TextItem(t) == [type |-> "text", mime_image |-> FALSE, contents |-> "", text |-> t]

\* the text of an outbound message or of get_image's analysis: the string,
\* the parameters it reports and the exception it quotes
Text(str, p, e) == [text |-> str, params |-> p, exc |-> e]
NoText == Text("", EmptyDict, "")

TxtDownloadFailed == Text("Failed to download resource.", EmptyDict, "")
TxtSendImage == Text("Please send an image to analyze.", EmptyDict, "")
TxtErrorProcessing == Text("Error processing image. Please try again.", EmptyDict, "")
TxtFailedToProcess == Text("Failed to process image.", EmptyDict, "")
TxtNoValidImage == Text("No valid image found in the content", EmptyDict, "")
TxtNoOutput == Text("Failed to process image: No output file was generated", EmptyDict, "")
TxtSamError(e) == Text("Error processing image with SAM: ", EmptyDict, e)
TxtAnalysis(p) == Text("Processed image with SAM parameters:", p, "")

\* a Python string is truthy unless empty
Truthy(t) == t.text # ""

\* log entries: an outbound message (ctx.send) ...
SendEv(to, kind, id, t) == [ev |-> "send", to |-> to, kind |-> kind, id |-> id, text |-> t]
\* ... or an external call with its outcome
CallEv(name, outcome, p) ==
    [ev |-> name, to |-> "", kind |-> outcome, id |-> 0, text |-> Text("", p, "")]

\* mutant of Recipient: the message goes to the sender noted for the session
RecipientFromNote(h) == storage[session[h]]

\* the recipient of every ctx.send of handle_message: its sender argument
Recipient(h) == sender[h]

\* mutant of AckMessage: the acknowledgement carries a fresh id
AckMessageFreshId(h) == SendEv(Recipient(h), "ack", 0, NoText)

\* ChatAcknowledgement(acknowledged_msg_id=msg.msg_id), lines 74-80
AckMessage(h) == SendEv(Recipient(h), "ack", inbox[h].msg_id, NoText)
\* create_metadata({"attachments": "true"}), line 89
MetadataMessage(h) == SendEv(Recipient(h), "metadata", 0, NoText)
\* create_text_chat(text)
TextMessage(h, t) == SendEv(Recipient(h), "text", 0, t)
\* create_resource_chat(asset_id, asset_uri), line 151
ResourceMessage(h) == SendEv(Recipient(h), "resource", h, NoText)

NoRet == [image |-> "none", text |-> NoText]

\* ctx.storage.set(str(ctx.session), sender), line 70
StorageSet(st, s, who) == [st EXCEPT ![s] = who]

----------------------------------------------------------------------------
\* handle_message, lines 68-118: note, acknowledgement, loop over the parts

\* A task runs without interruption between two awaits that suspend it; the
\* awaits of handle_message that reach the runtime are the ctx.send calls
\* (download, create_asset and client.predict are synchronous calls, and
\* get_image contains no await that suspends).
MayRun(h) == running = 0 \/ running = h

\* the handler is entered: the note is written, then the ack is awaited
Receive(h) ==
    /\ pc[h] = "recv"
    /\ MayRun(h)
    /\ storage' = StorageSet(storage, session[h], sender[h])
    /\ lastStarted' = [lastStarted EXCEPT ![session[h]] = h]
    /\ pc' = [pc EXCEPT ![h] = "ack"]
    /\ running' = h
    /\ UNCHANGED <<pvars, msgvars, loopvars, log, ret, samvars, storevars>>

\* lines 74-84
SendAck(h) ==
    /\ pc[h] = "ack"
    /\ MayRun(h)
    /\ log' = [log EXCEPT ![h] = Append(@, AckMessage(h))]
    /\ idx' = [idx EXCEPT ![h] = 1]
    /\ content_items' = [content_items EXCEPT ![h] = <<>>]
    /\ has_image' = [has_image EXCEPT ![h] = FALSE]
    /\ pc' = [pc EXCEPT ![h] = "loop"]
    /\ running' = 0
    /\ UNCHANGED <<pvars, msgvars, ret, samvars, storevars, notevars>>

AtPart(h, kind) ==
    /\ pc[h] = "loop"
    /\ MayRun(h)
    /\ idx[h] <= Len(inbox[h].content)
    /\ inbox[h].content[idx[h]].kind = kind

\* lines 87-90
StartSessionPart(h) ==
    /\ AtPart(h, "start")
    /\ log' = [log EXCEPT ![h] = Append(@, MetadataMessage(h))]
    /\ idx' = [idx EXCEPT ![h] = @ + 1]
    /\ running' = 0
    /\ UNCHANGED <<pvars, pc, msgvars, content_items, has_image, ret, samvars,
                   storevars, notevars>>

\* lines 91-96
TextPart(h) ==
    /\ AtPart(h, "text")
    /\ content_items' =
         [content_items EXCEPT ![h] = Append(@, TextItem(inbox[h].content[idx[h]].text))]
    /\ idx' = [idx EXCEPT ![h] = @ + 1]
    /\ running' = h
    /\ UNCHANGED <<pvars, pc, msgvars, has_image, log, ret, samvars, storevars, notevars>>

\* a part of no handled type falls through the if/elif chain
OtherPart(h) ==
    /\ AtPart(h, "other")
    /\ idx' = [idx EXCEPT ![h] = @ + 1]
    /\ running' = h
    /\ UNCHANGED <<pvars, pc, msgvars, content_items, has_image, log, ret, samvars,
                   storevars, notevars>>

\* whether the download counts as an image, line 105
Downloaded(o) == o \notin {"raise", "nodata"}

\* lines 97-114: the download returned
ResourcePart(h) ==
    /\ AtPart(h, "resource")
    /\ \E o \in DownloadOutcomes \ {"raise"} :
         /\ log' = [log EXCEPT ![h] = Append(@, CallEv("download", o, EmptyDict))]
         /\ IF Downloaded(o)
              THEN /\ content_items' =
                        [content_items EXCEPT ![h] = Append(@, ResourceItem(o))]
                   /\ has_image' = [has_image EXCEPT ![h] = TRUE]
              ELSE UNCHANGED <<content_items, has_image>>
    /\ idx' = [idx EXCEPT ![h] = @ + 1]
    /\ running' = h
    /\ UNCHANGED <<pvars, pc, msgvars, ret, samvars, storevars, notevars>>

\* lines 115-118: the download raised; the notice is sent and the handler returns
ResourcePartRaises(h) ==
    /\ AtPart(h, "resource")
    /\ log' = [log EXCEPT ![h] =
                 @ \o <<CallEv("download", "raise", EmptyDict), TextMessage(h, TxtDownloadFailed)>>]
    /\ pc' = [pc EXCEPT ![h] = "done"]
    /\ running' = 0
    /\ UNCHANGED <<pvars, msgvars, loopvars, ret, samvars, storevars, notevars>>

\* mutant of AfterLoop: text without an image is dropped like an empty message
AfterLoopDropsText(img, items) == IF img THEN "process" ELSE "done"

\* lines 121, 158, 160: where the handler goes after the loop
AfterLoop(img, items) ==
    IF img THEN "process"
    ELSE IF items # <<>> THEN "prompt"
    ELSE "done"

LoopEnd(h) ==
    /\ pc[h] = "loop"
    /\ MayRun(h)
    /\ idx[h] > Len(inbox[h].content)
    /\ pc' = [pc EXCEPT ![h] = AfterLoop(has_image[h], content_items[h])]
    /\ running' = IF pc'[h] = "done" THEN 0 ELSE h
    /\ UNCHANGED <<pvars, msgvars, loopvars, log, ret, samvars, storevars, notevars>>

\* line 159
SendPrompt(h) ==
    /\ pc[h] = "prompt"
    /\ MayRun(h)
    /\ log' = [log EXCEPT ![h] = Append(@, TextMessage(h, TxtSendImage))]
    /\ pc' = [pc EXCEPT ![h] = "done"]
    /\ running' = 0
    /\ UNCHANGED <<pvars, msgvars, loopvars, ret, samvars, storevars, notevars>>

----------------------------------------------------------------------------
\* evitsam.py: get_image, lines 170-186

\* the loop of get_image over the first n items: the last text is the
\* prompt, the last image resource is decoded; base64.b64decode raises on
\* contents that do not decode
RECURSIVE ScanContent(_, _)
ScanContent(items, n) ==
    IF n = 0 THEN [raised |-> FALSE, prompt |-> <<>>, image |-> "none"]
    ELSE LET s == ScanContent(items, n - 1)
             it == items[n]
         IN  IF s.raised THEN s
             ELSE IF it.type = "text" THEN [s EXCEPT !.prompt = it.text]
             ELSE IF it.type = "resource" /\ it.mime_image
                  THEN IF it.contents = "bad" THEN [s EXCEPT !.raised = TRUE]
                       ELSE [s EXCEPT !.image = it.contents]
             ELSE s

\* "if image_data:" -- empty bytes are falsy
ImageTruthy(img) == img = "good"

\* "except Exception" of handle_message, line 155: catches every Exception
HandlerCatches(e) == TRUE

\* where control goes when exception e is raised inside the try of line 122
OnRaise(e) == IF HandlerCatches(e) THEN "except" ELSE "crashed"

\* handle_message line 124 into get_image, up to the call of
\* process_image_with_sam and through its lines 92-106
GetImage(h) ==
    /\ pc[h] = "process"
    /\ MayRun(h)
    /\ LET s == ScanContent(content_items[h], Len(content_items[h]))
       IN  IF s.raised
             THEN /\ pc' = [pc EXCEPT ![h] = OnRaise("binascii.Error")]
                  /\ UNCHANGED <<ret, sam_call>>
           ELSE IF ImageTruthy(s.image)
             THEN /\ sam_call' = [sam_call EXCEPT ![h] = ResolveParams(s.prompt, EmptyDict)]
                  /\ pc' = [pc EXCEPT ![h] = "sam_tmp"]
                  /\ UNCHANGED ret
           ELSE /\ ret' = [ret EXCEPT ![h] = [image |-> "none", text |-> TxtNoValidImage]]
                /\ pc' = [pc EXCEPT ![h] = "returned"]
                /\ UNCHANGED sam_call
    /\ running' = h
    /\ UNCHANGED <<pvars, msgvars, loopvars, log, tmp_file, result, out_file, pending,
                   sam_ret, storevars, notevars>>

----------------------------------------------------------------------------
\* evitsam.py: process_image_with_sam, lines 108-154
\* The remote calls (Client, client.predict) may fail; writing, reading and
\* unlinking local files are taken to succeed.

\* lines 110-112
SamWriteTemp(h) ==
    /\ pc[h] = "sam_tmp"
    /\ MayRun(h)
    /\ tmp_file' = [tmp_file EXCEPT ![h] = TRUE]
    /\ log' = [log EXCEPT ![h] = Append(@, CallEv("tempfile", "created", EmptyDict))]
    /\ pc' = [pc EXCEPT ![h] = "sam_client"]
    /\ running' = h
    /\ UNCHANGED <<pvars, msgvars, loopvars, ret, sam_call, result, out_file, pending,
                   sam_ret, storevars, notevars>>

\* line 116: Client(...) connects, or raises
SamClient(h) ==
    /\ pc[h] = "sam_client"
    /\ MayRun(h)
    /\ \E ok \in BOOLEAN :
         IF ok
           THEN /\ pc' = [pc EXCEPT ![h] = "sam_predict"]
                /\ UNCHANGED <<pending, log>>
           ELSE /\ pending' = [pending EXCEPT ![h] = "ConnectionError"]
                /\ log' = [log EXCEPT ![h] = Append(@, CallEv("client", "raise", EmptyDict))]
                /\ pc' = [pc EXCEPT ![h] = "sam_finally"]
    /\ running' = h
    /\ UNCHANGED <<pvars, msgvars, loopvars, ret, sam_call, tmp_file, result, out_file,
                   sam_ret, storevars, notevars>>

\* what client.predict does: it raises, or returns the path of a file that
\* does not exist, of an empty file, or of the segmented image
PredictOutcomes == {"raise", "no_output", "empty", "good"}

\* lines 119-126
SamPredict(h) ==
    /\ pc[h] = "sam_predict"
    /\ MayRun(h)
    /\ \E o \in PredictOutcomes :
         /\ log' = [log EXCEPT ![h] = Append(@, CallEv("predict", o, sam_call[h]))]
         /\ IF o = "raise"
              THEN /\ pending' = [pending EXCEPT ![h] = "AppError"]
                   /\ pc' = [pc EXCEPT ![h] = "sam_finally"]
                   /\ UNCHANGED <<result, out_file>>
              ELSE /\ result' = [result EXCEPT ![h] = "path"]
                   /\ out_file' = [out_file EXCEPT ![h] = IF o = "no_output" THEN "none" ELSE o]
                   /\ pc' = [pc EXCEPT ![h] = "sam_read"]
                   /\ UNCHANGED pending
    /\ running' = h
    /\ UNCHANGED <<pvars, msgvars, loopvars, ret, sam_call, tmp_file, sam_ret,
                   storevars, notevars>>

\* lines 129-144: the value the return statement of the try block holds
ReadResult(file, p) ==
    IF file # "none" THEN [image |-> file, text |-> TxtAnalysis(p)]
    ELSE [image |-> "none", text |-> TxtNoOutput]

SamRead(h) ==
    /\ pc[h] = "sam_read"
    /\ MayRun(h)
    /\ sam_ret' = [sam_ret EXCEPT ![h] = ReadResult(out_file[h], sam_call[h])]
    /\ pc' = [pc EXCEPT ![h] = "sam_finally"]
    /\ running' = h
    /\ UNCHANGED <<pvars, msgvars, loopvars, log, ret, sam_call, tmp_file, result,
                   out_file, pending, storevars, notevars>>

\* mutant of Finally: result is examined before the temporary file is unlinked
FinallyResultFirst(tmp, res, file, exc) ==
    IF res = "unbound"
      THEN [tmp |-> tmp, file |-> file, exc |-> "UnboundLocalError"]
      ELSE [tmp |-> FALSE, file |-> "none", exc |-> exc]

\* lines 146-151, the finally block: the temporary file is unlinked, then
\* os.path.exists(result) is evaluated; with result unbound that raises
\* UnboundLocalError, which replaces the exception in flight
Finally(tmp, res, file, exc) ==
    IF res = "unbound"
      THEN [tmp |-> FALSE, file |-> file, exc |-> "UnboundLocalError"]
      ELSE [tmp |-> FALSE, file |-> "none", exc |-> exc]

SamFinally(h) ==
    /\ pc[h] = "sam_finally"
    /\ MayRun(h)
    /\ LET f == Finally(tmp_file[h], result[h], out_file[h], pending[h])
       IN  /\ tmp_file' = [tmp_file EXCEPT ![h] = f.tmp]
           /\ out_file' = [out_file EXCEPT ![h] = f.file]
           /\ pending' = [pending EXCEPT ![h] = f.exc]
    /\ pc' = [pc EXCEPT ![h] = "sam_exit"]
    /\ running' = h
    /\ UNCHANGED <<pvars, msgvars, loopvars, log, ret, sam_call, result, sam_ret,
                   storevars, notevars>>

\* mutant of OuterExcept: no outer except clause, the exception leaves the function
OuterExceptMissing(exc, r) ==
    IF exc # "none" THEN [raised |-> TRUE, ret |-> NoRet]
    ELSE [raised |-> FALSE, ret |-> r]

\* lines 153-154: "except Exception as e" turns an exception in flight into
\* (None, "Error processing image with SAM: ..."); otherwise the function
\* returns what the try block returned
OuterExcept(exc, r) ==
    IF exc # "none" THEN [raised |-> FALSE, ret |-> [image |-> "none", text |-> TxtSamError(exc)]]
    ELSE [raised |-> FALSE, ret |-> r]

\* process_image_with_sam and get_image return to handle_message
SamExit(h) ==
    /\ pc[h] = "sam_exit"
    /\ MayRun(h)
    /\ LET x == OuterExcept(pending[h], sam_ret[h])
       IN  IF x.raised
             THEN /\ pc' = [pc EXCEPT ![h] = OnRaise(pending[h])]
                  /\ UNCHANGED ret
             ELSE /\ ret' = [ret EXCEPT ![h] = x.ret]
                  /\ pc' = [pc EXCEPT ![h] = "returned"]
    /\ pending' = [pending EXCEPT ![h] = "none"]
    /\ running' = h
    /\ UNCHANGED <<pvars, msgvars, loopvars, log, sam_call, tmp_file, result, out_file,
                   sam_ret, storevars, notevars>>

----------------------------------------------------------------------------
\* handle_message, lines 126-157: the replies

\* what storing the segmented image does: create_asset raises; the asset is
\* created and set_permissions raises; both succeed and the asset id is a
\* UUID; both succeed and the asset id does not parse as a UUID
StoreOutcomes == {"create_raises", "permissions_raise", "stored", "stored_bad_id"}

\* mutant of AfterStore: the analysis text is never sent
AfterStoreNoAnalysis(t) == "send_resource"

\* lines 147-151: the analysis is sent if there is one, then the resource
AfterStore(t) == IF Truthy(t) THEN "send_analysis" ELSE "send_resource"

\* lines 126-144, under "if segmented_image:" (None and empty bytes are falsy)
StoreAsset(h) ==
    /\ pc[h] = "returned"
    /\ MayRun(h)
    /\ ImageTruthy(ret[h].image)
    /\ \E o \in StoreOutcomes :
         /\ log' = [log EXCEPT ![h] = Append(@, CallEv("store", o, EmptyDict))]
         /\ assets' = [assets EXCEPT ![h] = IF o = "create_raises" THEN @ ELSE @ + 1]
         /\ asset_id' = [asset_id EXCEPT ![h] =
                            CASE o = "stored" -> "uuid"
                              [] o = "stored_bad_id" -> "malformed"
                              [] o = "permissions_raise" -> "uuid"
                              [] OTHER -> @]
         /\ pc' = [pc EXCEPT ![h] =
                      IF o \in {"stored", "stored_bad_id"}
                        THEN AfterStore(ret[h].text)
                        ELSE OnRaise("StorageError")]
    /\ running' = h
    /\ UNCHANGED <<pvars, msgvars, loopvars, ret, samvars, notevars>>

\* lines 147-148
SendAnalysis(h) ==
    /\ pc[h] = "send_analysis"
    /\ MayRun(h)
    /\ log' = [log EXCEPT ![h] = Append(@, TextMessage(h, ret[h].text))]
    /\ pc' = [pc EXCEPT ![h] = "send_resource"]
    /\ running' = 0
    /\ UNCHANGED <<pvars, msgvars, loopvars, ret, samvars, storevars, notevars>>

\* line 151: create_resource_chat builds UUID4(asset_id), which raises
\* ValueError on an id that is no UUID; otherwise the message is sent
SendResource(h) ==
    /\ pc[h] = "send_resource"
    /\ MayRun(h)
    /\ IF asset_id[h] = "uuid"
         THEN /\ log' = [log EXCEPT ![h] = Append(@, ResourceMessage(h))]
              /\ pc' = [pc EXCEPT ![h] = "done"]
              /\ running' = 0
         ELSE /\ log' = [log EXCEPT ![h] = Append(@, CallEv("resource_chat", "raise", EmptyDict))]
              /\ pc' = [pc EXCEPT ![h] = OnRaise("ValueError")]
              /\ running' = h
    /\ UNCHANGED <<pvars, msgvars, loopvars, ret, samvars, storevars, notevars>>

\* lines 152-153
SendFailure(h) ==
    /\ pc[h] = "returned"
    /\ MayRun(h)
    /\ ~ImageTruthy(ret[h].image)
    /\ log' = [log EXCEPT ![h] =
                 Append(@, TextMessage(h, IF Truthy(ret[h].text) THEN ret[h].text
                                          ELSE TxtFailedToProcess))]
    /\ pc' = [pc EXCEPT ![h] = "done"]
    /\ running' = 0
    /\ UNCHANGED <<pvars, msgvars, loopvars, ret, samvars, storevars, notevars>>

\* lines 155-157
SendError(h) ==
    /\ pc[h] = "except"
    /\ MayRun(h)
    /\ log' = [log EXCEPT ![h] = Append(@, TextMessage(h, TxtErrorProcessing))]
    /\ pc' = [pc EXCEPT ![h] = "done"]
    /\ running' = 0
    /\ UNCHANGED <<pvars, msgvars, loopvars, ret, samvars, storevars, notevars>>

----------------------------------------------------------------------------
\* Specifications

Next ==
    \E h \in Tasks :
        \/ Receive(h)
        \/ SendAck(h)
        \/ StartSessionPart(h)
        \/ TextPart(h)
        \/ OtherPart(h)
        \/ ResourcePart(h)
        \/ ResourcePartRaises(h)
        \/ LoopEnd(h)
        \/ SendPrompt(h)
        \/ GetImage(h)
        \/ SamWriteTemp(h)
        \/ SamClient(h)
        \/ SamPredict(h)
        \/ SamRead(h)
        \/ SamFinally(h)
        \/ SamExit(h)
        \/ StoreAsset(h)
        \/ SendAnalysis(h)
        \/ SendResource(h)
        \/ SendFailure(h)
        \/ SendError(h)

\* the state of a task before its handler is entered
HandlerLocals ==
    /\ idx = [h \in Tasks |-> 1]
    /\ content_items = [h \in Tasks |-> <<>>]
    /\ has_image = [h \in Tasks |-> FALSE]
    /\ log = [h \in Tasks |-> <<>>]
    /\ ret = [h \in Tasks |-> NoRet]
    /\ sam_call = [h \in Tasks |-> EmptyDict]
    /\ tmp_file = [h \in Tasks |-> FALSE]
    /\ result = [h \in Tasks |-> "unbound"]
    /\ out_file = [h \in Tasks |-> "none"]
    /\ pending = [h \in Tasks |-> "none"]
    /\ sam_ret = [h \in Tasks |-> NoRet]
    /\ assets = [h \in Tasks |-> 0]
    /\ asset_id = [h \in Tasks |-> "none"]
    /\ storage = [s \in Sessions |-> "none"]
    /\ lastStarted = [s \in Sessions |-> 0]
    /\ running = 0

\* no message is being handled
HandlerIdle ==
    /\ pc = [h \in Tasks |-> "off"]
    /\ inbox = [h \in Tasks |-> [msg_id |-> h, content |-> <<>>]]
    /\ sender = [h \in Tasks |-> "agent_a"]
    /\ session = [h \in Tasks |-> "s1"]
    /\ HandlerLocals

\* the tasks in T (task 1 among them) have each been handed a message with
\* content from cs; sender addresses and session ids are interchangeable
\* names, so those of task 1 are fixed
HandlerStart(T, cs) ==
    /\ pc = [h \in Tasks |-> IF h \in T THEN "recv" ELSE "off"]
    /\ \E cf \in [T -> cs] :
         inbox = [h \in Tasks |->
                    [msg_id |-> h, content |-> IF h \in T THEN cf[h] ELSE <<>>]]
    /\ \E sf \in {f \in [T -> Senders] : f[1] = "agent_a"} :
         sender = [h \in Tasks |-> IF h \in T THEN sf[h] ELSE "agent_a"]
    /\ \E sf \in {f \in [T -> Sessions] : f[1] = "s1"} :
         session = [h \in Tasks |-> IF h \in T THEN sf[h] ELSE "s1"]
    /\ HandlerLocals

\* one message is handled on its own
Init == HandlerStart({1}, ContentsUpTo(MaxParts)) /\ PipelineIdle

Spec == Init /\ [][Next]_vars

\* every task handles a message; the runtime interleaves them at the awaits
InitConc == HandlerStart(Tasks, ConcContents) /\ PipelineIdle

SpecConc == InitConc /\ [][Next]_vars

\* prompts alone, no explicit overrides
InitParse == PipelineStart(PromptsUpTo(MaxChunks), {EmptyDict}) /\ HandlerIdle

SpecParse == InitParse /\ [][NextPipeline]_vars

\* prompts together with explicit overrides
InitParams == PipelineStart(PromptsUpTo(MaxOvChunks), Overrides) /\ HandlerIdle

SpecParams == InitParams /\ [][NextPipeline]_vars

----------------------------------------------------------------------------
\* Claims about handle_message

\* the outbound messages of task h, in order
Sends(h) == SelectSeq(log[h], LAMBDA e : e.ev = "send")

\* the outbound messages of task h of one kind
SendsOfKind(h, k) == SelectSeq(log[h], LAMBDA e : e.ev = "send" /\ e.kind = k)

\* task h made external call name with an outcome in kinds
Called(h, name, kinds) ==
    \E i \in 1..Len(log[h]) : log[h][i].ev = name /\ log[h][i].kind \in kinds

PartsOfKind(h, k) == {i \in 1..Len(inbox[h].content) : inbox[h].content[i].kind = k}

\* C1: every inbound message is acknowledged exactly once, with its msg_id,
\* to its sender, and the acknowledgement is the first thing the handler
\* does: before any download, any segmentation call and any other reply.
C1_AckFirst ==
    \A h \in Tasks :
        /\ pc[h] \in {"off", "recv", "ack"} => log[h] = <<>>
        /\ pc[h] \notin {"off", "recv", "ack"} =>
              /\ log[h] # <<>>
              /\ log[h][1] = [ev |-> "send", to |-> sender[h], kind |-> "ack",
                              id |-> inbox[h].msg_id, text |-> NoText]
              /\ Len(SendsOfKind(h, "ack")) = 1

\* a handled message whose download succeeded and whose segmentation call
\* raised, acknowledged first
C1_Witness ==
    \E h \in Tasks :
        /\ pc[h] = "done"
        /\ Called(h, "download", {"image"})
        /\ Called(h, "predict", {"raise"})
        /\ log[h][1].kind = "ack"
        /\ Len(Sends(h)) = 2

\* the message of task h has one resource part, which is a valid image, and
\* no text part
OneImageNoText(h) ==
    /\ Cardinality(PartsOfKind(h, "resource")) = 1
    /\ PartsOfKind(h, "text") = {}
    /\ Called(h, "download", {"image"})

\* the four parameters at their defaults, as handed to the remote call
DefaultCall ==
    [points_per_side |-> 64, iou_threshold |-> 80, stability_threshold |-> 85,
     box_nms_threshold |-> 70]

\* every remote segmentation call of task h was made with the defaults
CalledWithDefaults(h) ==
    \A i \in 1..Len(log[h]) :
        log[h][i].ev = "predict" => log[h][i].text.params = DefaultCall

\* after the acknowledgement: the analysis text, then the resource reference
AnalysisThenResource(h) ==
    /\ Len(Sends(h)) = 3
    /\ Sends(h)[2] = [ev |-> "send", to |-> sender[h], kind |-> "text", id |-> 0,
                      text |-> TxtAnalysis(DefaultCall)]
    /\ Sends(h)[3].kind = "resource"
    /\ Sends(h)[3].to = sender[h]

\* C2 as stated: for a message with one valid image resource and no text
\* part the remote call gets the default parameters, and when segmentation
\* succeeds exactly two messages follow the acknowledgement: the analysis
\* text, then the resource reference.
C2_Original ==
    \A h \in Tasks :
        OneImageNoText(h) =>
            /\ CalledWithDefaults(h)
            /\ (pc[h] = "done" /\ Called(h, "predict", {"good"})) => AnalysisThenResource(h)

\* C2 as amended: the same for a message that has no session-start part
\* either, when segmentation succeeds and the segmented image is stored
\* (create_asset and set_permissions do not raise and the asset id is a UUID).
C2_DefaultsThenTwoReplies ==
    \A h \in Tasks :
        OneImageNoText(h) =>
            /\ CalledWithDefaults(h)
            /\ ( /\ pc[h] = "done"
                 /\ PartsOfKind(h, "start") = {}
                 /\ Called(h, "predict", {"good"})
                 /\ Called(h, "store", {"stored"}) ) => AnalysisThenResource(h)

\* a handled message of one image whose segmentation and storing succeeded
C2_Witness ==
    \E h \in Tasks :
        /\ pc[h] = "done"
        /\ OneImageNoText(h)
        /\ PartsOfKind(h, "start") = {}
        /\ Called(h, "predict", {"good"})
        /\ Called(h, "store", {"stored"})
        /\ Len(Sends(h)) = 3
        /\ assets[h] = 1

\* C3: when the download of a resource part fails (the storage call raises,
\* or returns no usable contents), the handler sends exactly one text reply
\* and that reply is the failure notice.
C3_Original ==
    \A h \in Tasks :
        (pc[h] = "done" /\ Called(h, "download", {"raise", "nodata"})) =>
            /\ Len(SendsOfKind(h, "text")) = 1
            /\ SendsOfKind(h, "text")[1].text = TxtDownloadFailed

\* the remote segmentation failed: network error, remote-side error, or no
\* output file
SegmentationFailed(h) ==
    Called(h, "client", {"raise"}) \/ Called(h, "predict", {"raise", "no_output"})

\* the strings process_image_with_sam returns with an absent image
SamErrorStrings ==
    {"Error processing image with SAM: ",
     "Failed to process image: No output file was generated"}

\* C4: when segmentation fails the handler sends exactly one text message,
\* which carries the error string get_image returned, sends no resource
\* reference, creates no asset, and no exception leaves the handler or
\* reaches its except clause.
C4_SegmentationFailureReported ==
    \A h \in Tasks :
        SegmentationFailed(h) =>
            /\ pc[h] \notin {"crashed", "except"}
            /\ assets[h] = 0
            /\ ~Called(h, "store", StoreOutcomes)
            /\ SendsOfKind(h, "resource") = <<>>
            /\ pc[h] # "done" => SendsOfKind(h, "text") = <<>>
            /\ pc[h] = "done" =>
                  /\ Len(SendsOfKind(h, "text")) = 1
                  /\ SendsOfKind(h, "text")[1].text = ret[h].text
                  /\ ret[h].image = "none"
                  /\ ret[h].text.text \in SamErrorStrings

\* a handled message whose segmentation failed when the client could not be
\* built, reported with the error string
C4_Witness ==
    \E h \in Tasks :
        /\ pc[h] = "done"
        /\ Called(h, "client", {"raise"})
        /\ Len(SendsOfKind(h, "text")) = 1
        /\ SendsOfKind(h, "text")[1].text = TxtSamError("UnboundLocalError")

\* the positions at which process_image_with_sam is running, its temporary
\* file written
InsideSam == {"sam_client", "sam_predict", "sam_read", "sam_finally", "sam_exit"}

\* C5: when process_image_with_sam has returned, on every exit path (with a
\* result image, with "no output file", after Client or client.predict
\* raised), its temporary input file no longer exists; when a remote call
\* raised, the function returns an absent image and an error string
\* instead of raising.
C5_TempFileReleased ==
    \A h \in Tasks :
        /\ (Called(h, "tempfile", {"created"}) /\ pc[h] \notin InsideSam) => ~tmp_file[h]
        /\ tmp_file[h] => pc[h] \in InsideSam \ {"sam_exit"}
        /\ ( /\ Called(h, "client", {"raise"}) \/ Called(h, "predict", {"raise"})
             /\ pc[h] \notin InsideSam ) =>
                /\ pc[h] \in {"returned", "done"}
                /\ ret[h].image = "none"
                /\ ret[h].text.text = "Error processing image with SAM: "
                /\ ret[h].text.exc # ""

\* process_image_with_sam has just returned after client.predict raised
C5_Witness ==
    \E h \in Tasks :
        /\ pc[h] = "returned"
        /\ Called(h, "tempfile", {"created"})
        /\ Called(h, "predict", {"raise"})
        /\ ~tmp_file[h]
        /\ ret[h].image = "none"

\* the message of task h has at least one part and only text parts
TextOnly(h) ==
    /\ inbox[h].content # <<>>
    /\ \A i \in 1..Len(inbox[h].content) : inbox[h].content[i].kind = "text"

\* the reply to a message of text parts only
SendImagePrompt(h) ==
    [ev |-> "send", to |-> sender[h], kind |-> "text", id |-> 0,
     text |-> Text("Please send an image to analyze.", EmptyDict, "")]

\* C6: a message of text parts only is answered, after the acknowledgement,
\* with exactly one text message, the fixed "Please send an image to
\* analyze." prompt; nothing else is sent and segmentation is never invoked.
C6_TextOnlyPrompt ==
    \A h \in Tasks :
        TextOnly(h) =>
            /\ \A i \in 1..Len(log[h]) : log[h][i].ev = "send"
            /\ pc[h] \notin InsideSam \cup {"process", "sam_tmp", "returned", "except"}
            /\ Len(Sends(h)) <= 2
            /\ pc[h] # "done" => SendsOfKind(h, "text") = <<>>
            /\ pc[h] = "done" =>
                  /\ Len(Sends(h)) = 2
                  /\ Sends(h)[1].kind = "ack"
                  /\ Sends(h)[2] = SendImagePrompt(h)

\* a handled message of two text parts, answered with the prompt
C6_Witness ==
    \E h \in Tasks :
        /\ pc[h] = "done"
        /\ TextOnly(h)
        /\ Len(inbox[h].content) = 2
        /\ Sends(h)[2] = SendImagePrompt(h)

\* C10: the note ctx.storage[session] is last-writer-wins (it names the
\* sender of the message whose handler was entered last for that session,
\* and is set as soon as a handler was entered), and every outbound message
\* of a handler is addressed to the sender of the message it handles, never
\* to the noted sender.
C10_NoteLastWriterWins ==
    /\ \A s \in Sessions :
          storage[s] = IF lastStarted[s] = 0 THEN "none" ELSE sender[lastStarted[s]]
    /\ \A h \in Tasks :
          /\ pc[h] \notin {"off", "recv"} => storage[session[h]] \in Senders
          /\ \A i \in 1..Len(log[h]) : log[h][i].ev = "send" => log[h][i].to = sender[h]

\* two handlers of one session and different senders have both finished;
\* the note names the second sender while the first handler's replies went
\* to the first
C10_Witness ==
    \E h1, h2 \in Tasks :
        /\ h1 # h2
        /\ session[h1] = session[h2]
        /\ sender[h1] # sender[h2]
        /\ pc[h1] = "done"
        /\ pc[h2] = "done"
        /\ lastStarted[session[h1]] = h2
        /\ storage[session[h1]] = sender[h2]
        /\ Len(Sends(h1)) >= 3
        /\ \A i \in 1..Len(Sends(h1)) : Sends(h1)[i].to = sender[h1]

----------------------------------------------------------------------------
\* Claims about the parameter pipeline

\* the prompt as parse_prompt_for_parameters sees it
LoweredPrompt == Lower(prompt)

InRange(x, lo, hi) == lo <= x /\ x <= hi

\* a threshold is clamped to the nearest bound of [0.1, 1.0], or passed unchanged
ThresholdClamped(m, v) ==
    /\ InRange(v, 10, 100)
    /\ (m < 10 => v = 10)
    /\ (m > 100 => v = 100)
    /\ (InRange(m, 10, 100) => v = m)

\* points_per_side is clamped to the nearest bound of [1, 128], or truncated
\* to the integer below it
PointsClamped(m, v) ==
    /\ InRange(v, 1, 128)
    /\ (m < 100 => v = 1)
    /\ (m >= 12800 => v = 128)
    /\ (InRange(m, 100, 12799) => (v * 100 <= m /\ m < v * 100 + 100))

\* C7: whatever the prompt-derived updates and the explicit overrides are,
\* the validated parameters are points_per_side an integer in [1,128] and
\* the three thresholds in [0.1,1.0]; a value outside its range is clamped
\* to the nearest bound and a value inside is passed unchanged
\* (points_per_side truncated to an integer).
C7_ValidatedInRange ==
    ppc = "validated" =>
        /\ DOMAIN call_params = ParamKeys
        /\ PointsClamped(params.points_per_side, call_params.points_per_side)
        /\ ThresholdClamped(params.iou_threshold, call_params.iou_threshold)
        /\ ThresholdClamped(params.stability_threshold, call_params.stability_threshold)
        /\ ThresholdClamped(params.box_nms_threshold, call_params.box_nms_threshold)

\* a validated state in which a prompt-derived update and explicit overrides
\* met, one override below its range and one above
C7_Witness ==
    /\ ppc = "validated"
    /\ "box_nms_threshold" \in DOMAIN param_updates
    /\ "points_per_side" \in DOMAIN sam_params
    /\ "iou_threshold" \in DOMAIN sam_params
    /\ sam_params.points_per_side < 0
    /\ sam_params.iou_threshold > 100
    /\ call_params.points_per_side = 1
    /\ call_params.iou_threshold = 100
    /\ call_params.box_nms_threshold = 10

\* what C8 bounds: points_per_side in hundredths, iou and stability
HigherQualityBounds(pts, iou, stab) ==
    /\ pts <= 12800
    /\ pts >= DefaultPoints
    /\ iou <= 95
    /\ stab <= 95

\* the bounds of C8 on the parameters after the prompt was applied over the
\* defaults, and on the validated parameters
C8_Bounds ==
    /\ ppc = "parsed" =>
          HigherQualityBounds(params.points_per_side, params.iou_threshold,
                              params.stability_threshold)
    /\ ppc = "validated" =>
          HigherQualityBounds(call_params.points_per_side * 100, call_params.iou_threshold,
                              call_params.stability_threshold)

\* C8 as stated: for every prompt containing "higher quality", whatever
\* else it contains, points_per_side is <= 128 and >= the default and the
\* iou and stability thresholds are <= 0.95.
C8_Original == HasHigherQuality(LoweredPrompt) => C8_Bounds

\* C8 as amended: the same for every prompt that contains "higher quality"
\* and does not contain "faster".
C8_HigherQualityWithoutFaster ==
    (HasHigherQuality(LoweredPrompt) /\ ~HasFaster(LoweredPrompt)) => C8_Bounds

\* a parsed prompt with "higher quality", without "faster", and with an
\* explicit points token whose value lies outside the bounds
C8_Witness ==
    /\ ppc = "parsed"
    /\ HasHigherQuality(LoweredPrompt)
    /\ ~HasFaster(LoweredPrompt)
    /\ FirstGoodPattern("points", LoweredPrompt) # 0
    /\ AliasValue("points", LoweredPrompt) > 12800
    /\ params.points_per_side = 12800

\* the position of the first "higher quality" / "faster", 0 when absent
HigherQualityPos(ws) ==
    LET S == {i \in 1..(Len(ws) - 1) : ws[i] = "higher" /\ ws[i + 1] = "quality"}
    IN  IF S = {} THEN 0 ELSE SetMin(S)

FasterPos(ws) ==
    LET S == {i \in 1..Len(ws) : ws[i] = "faster"}
    IN  IF S = {} THEN 0 ELSE SetMin(S)

\* the position of the explicit numeric token that decides alias a
TokenPos(a, ws) == Search(Patterns(a)[FirstGoodPattern(a, ws)].pat, ws)

\* alias a has an explicit numeric token that starts after every canned
\* phrase of the prompt, and the prompt has a canned phrase
TokenAfterPhrases(a, ws) ==
    /\ FirstGoodPattern(a, ws) # 0
    /\ HasHigherQuality(ws) \/ HasFaster(ws)
    /\ TokenPos(a, ws) > HigherQualityPos(ws)
    /\ TokenPos(a, ws) > FasterPos(ws)

\* the aliases whose parameter has no second alias
PlainAliases == {"points", "stability", "nms"}

\* C9 as stated: an explicit numeric token for a parameter that appears
\* later in the prompt than the canned phrase overrides the phrase's value
\* for that parameter in the returned update mapping.
C9_Original ==
    ppc = "parsed" =>
        \A a \in PlainAliases :
            TokenAfterPhrases(a, LoweredPrompt) =>
                param_updates[ParamOfAlias(a)] = AliasValue(a, LoweredPrompt)

\* the value the canned phrases leave for key k: "faster" is applied last
PhraseValue(k, ws) == IF HasFaster(ws) THEN FasterUpdate[k] ELSE HigherQualityUpdate[k]

\* C9 as amended: the canned phrases are applied after the single-parameter
\* matches, so for the parameters a phrase sets (points_per_side,
\* iou_threshold, stability_threshold) the returned mapping holds the
\* phrase's value ("faster" over "higher quality" when both occur) wherever
\* an explicit token for that parameter stands in the prompt; an explicit
\* token keeps its value only for box_nms_threshold, which no phrase sets,
\* and in prompts without a canned phrase.
C9_PhraseWins ==
    ppc = "parsed" =>
        LET ws == LoweredPrompt
        IN  /\ (HasHigherQuality(ws) \/ HasFaster(ws)) =>
                  \A k \in DOMAIN HigherQualityUpdate :
                      /\ k \in DOMAIN param_updates
                      /\ param_updates[k] = PhraseValue(k, ws)
            /\ FirstGoodPattern("nms", ws) # 0 =>
                  param_updates.box_nms_threshold = AliasValue("nms", ws)
            /\ ~(HasHigherQuality(ws) \/ HasFaster(ws)) =>
                  \A a \in PlainAliases :
                      FirstGoodPattern(a, ws) # 0 =>
                          param_updates[ParamOfAlias(a)] = AliasValue(a, ws)

\* a parsed prompt whose explicit points token follows "higher quality"
\* and is overridden by the phrase
C9_Witness ==
    /\ ppc = "parsed"
    /\ HasHigherQuality(LoweredPrompt)
    /\ ~HasFaster(LoweredPrompt)
    /\ TokenAfterPhrases("points", LoweredPrompt)
    /\ AliasValue("points", LoweredPrompt) = 10000
    /\ param_updates.points_per_side = 12800

====
